---- MODULE Spec2Model ----
(***************************************************************************)
(* GSDMM: collapsed Gibbs sampling for the Dirichlet Multinomial Mixture   *)
(* model (src/GSDMM.py).  The model follows one Python process: the        *)
(* class-level containers of GSDMM, the attributes inference() sets, and   *)
(* the position of the interpreter inside inference().                     *)
(*                                                                         *)
(* Python lists are sequences read with At (0-based, as in the source).    *)
(* Python floats are modelled as exact fractions <<n, d>> in lowest terms. *)
(***************************************************************************)
EXTENDS Integers, Sequences, FiniteSets, TLC

\* ------------------------------------------------------------------ bounds
MaxDocs == 3          \* records read from a corpus file
MaxTopics == 2        \* n_topics ranges over 1..MaxTopics
MaxIterations == 2    \* n_iterations ranges over 1..MaxIterations
DrawGrid == 4         \* random.uniform yields g/DrawGrid, g in 0..DrawGrid-1
MaxWeights == 3       \* length of the weight lists given to sample_new_topic
MaxWeight == 2        \* weights given to sample_new_topic are 0..MaxWeight halves
MaxRuns == 2          \* inference() calls in one process
SeedPeriod == 2       \* period of a seeded random stream
MaxVocab == 3         \* words of the vocabulary of a statistics table written
MaxCount == 5         \* occurrence counts of a table written are 0..MaxCount
MaxTopWords == 3      \* n_words_each_topic ranges over 1..MaxTopWords

\* ------------------------------------------------------- float arithmetic
\* An operand x is bound with x \in {e} where the value of e is to be
\* computed once, as Python computes an operand before it applies an operator.
Abs(x) == IF x < 0 THEN -x ELSE x

RECURSIVE GCD(_, _)
GCD(a, b) == IF b = 0 THEN a ELSE CHOOSE g \in {GCD(y, x % y) : x \in {a}, y \in {b}} : TRUE

\* the fraction n/d (d > 0) in lowest terms
Frac(n, d) == CHOOSE f \in {<<x \div g, y \div g>> : g \in {GCD(Abs(n), d)}, x \in {n}, y \in {d}} : TRUE

FInt(n) == <<n, 1>>

\* the operations on fractions; FAdd, FMul and FDiv apply them to operands
\* computed once
Sum(a, b) ==
    LET g == GCD(a[2], b[2])
    IN  Frac(a[1] * (b[2] \div g) + b[1] * (a[2] \div g), (a[2] \div g) * b[2])

Product(a, b) ==
    LET g1 == GCD(Abs(a[1]), b[2])
        g2 == GCD(Abs(b[1]), a[2])
    IN  <<(a[1] \div g1) * (b[1] \div g2), (a[2] \div g2) * (b[2] \div g1)>>

Quotient(a, b) ==
    IF b[1] > 0 THEN Product(a, <<b[2], b[1]>>) ELSE Product(a, <<-b[2], -b[1]>>)

\* a + b
FAdd(a, b) == CHOOSE v \in {Sum(x, y) : x \in {a}, y \in {b}} : TRUE

\* a * b
FMul(a, b) == CHOOSE v \in {Product(x, y) : x \in {a}, y \in {b}} : TRUE

\* a / b for b # 0 (Python raises ZeroDivisionError otherwise)
FDiv(a, b) == CHOOSE v \in {Quotient(x, y) : x \in {a}, y \in {b}} : TRUE

\* _sum >= r
FGe(a, b) ==
    LET g == GCD(a[2], b[2])
    IN  a[1] * (b[2] \div g) >= b[1] * (a[2] \div g)

\* _sum > r
FGt(a, b) ==
    LET g == GCD(a[2], b[2])
    IN  a[1] * (b[2] \div g) > b[1] * (a[2] \div g)

FIsZero(a) == a[1] = 0

\* ------------------------------------------------------------ Python lists
\* list[i] is defined for -len(list) <= i < len(list); a negative i counts
\* from the end, any other i raises IndexError
InRange(s, i) == -Len(s) <= i /\ i < Len(s)

Index(s, i) == IF i < 0 THEN Len(s) + i ELSE i

At(s, i) == s[Index(s, i) + 1]

Put(s, i, v) == [s EXCEPT ![Index(s, i) + 1] = v]

\* list[i] += 1, whatever the amount
AddOne(list, i, by) == Put(list, i, At(list, i) + 1)

\* list[i] += by
Add(list, i, by) == Put(list, i, At(list, i) + by)

\* list[i] = -by
SubAssignTypo(list, i, by) == Put(list, i, -by)

\* the decrement left out
SubNothing(list, i, by) == list

\* list[i] -= by
Sub(list, i, by) == Put(list, i, At(list, i) - by)

Zeros(n) == [i \in 1..n |-> 0]

RECURSIVE SumInts(_)
SumInts(s) == IF s = <<>> THEN 0 ELSE Head(s) + SumInts(Tail(s))

\* sum(multi_pros): left to right from 0
RECURSIVE SumFloats(_)
SumFloats(s) ==
    IF s = <<>> THEN FInt(0)
    ELSE FAdd(SumFloats(SubSeq(s, 1, Len(s) - 1)), s[Len(s)])

\* dict(collections.Counter(document)): <<word, occurrences>> pairs in the
\* order of first occurrence
RECURSIVE CounterFrom(_, _)
CounterFrom(document, seen) ==
    IF document = <<>> THEN <<>>
    ELSE LET w == Head(document)
             rest == Tail(document)
         IN  IF w \in seen THEN CounterFrom(rest, seen)
             ELSE <<w>> \o CounterFrom(rest, seen \cup {w})

Occurrences(document, w) == Cardinality({i \in DOMAIN document : document[i] = w})

\* dict.fromkeys(document, 1): every count 1
CounterOnes(document) ==
    LET keys == CounterFrom(document, {})
    IN  [i \in 1..Len(keys) |-> <<keys[i], 1>>]

Counter(document) ==
    LET keys == CounterFrom(document, {})
    IN  [i \in 1..Len(keys) |-> <<keys[i], Occurrences(document, keys[i])>>]

\* every word counted once
DictGetOne(d, word) == 1

\* words_occurrence[word]
DictGet(d, word) == d[CHOOSE i \in DOMAIN d : d[i][1] = word][2]

DictKeys(d) == {d[i][1] : i \in DOMAIN d}

\* ------------------------------------------------------------------ inputs
\* Corpus files: records <<docid, tokenids>>; a run reads a prefix of at most
\* MaxDocs records.  Each file goes with the vocabulary file of its word ids.
CorpusStreams ==
    { [records |-> << <<10, <<0, 1>>>>, <<11, <<1, 1>>>>, <<12, <<2>>>>, <<13, <<>>>> >>,
       n_words |-> 3],
      [records |-> << <<20, <<>>>>, <<21, <<0, 0>>>>, <<22, <<0>>>>, <<23, <<1, 0, 0>>>> >>,
       n_words |-> 2],
      [records |-> << <<30, <<1>>>>, <<31, <<0>>>>, <<32, <<1, 0, 1>>>>, <<33, <<0, 0, 0>>>> >>,
       n_words |-> 2] }

Prefixes(records) == {SubSeq(records, 1, n) : n \in {m \in 0..MaxDocs : m <= Len(records)}}

CorpusFiles ==
    UNION { {[records |-> p, n_words |-> s.n_words] : p \in Prefixes(s.records)} :
            s \in CorpusStreams }

\* vocabulary file: <<word, id>> records, ids dense over 0..n-1; the word of
\* id i is written 100 + i
VocabFile(n) == [i \in 1..n |-> <<100 + (i - 1), i - 1>>]

Alphas == { <<1, 2>> }
Betas == { <<0, 1>>, <<1, 1>> }

VARIABLES
    corpus_file, vocab_file,                 \* the files named by corpus_loc, vocab_loc
    alpha, beta, n_topics, n_iterations,     \* configuration (__init__)
    n_words_each_topic,
    doc_ids, id2word_vocabulary, documents,  \* class-level containers
    doc_word_count, doc_word_occurrence,
    topic_assignments,
    n_documents, n_vocabulary,
    topic_doc_count, topic_word_count, topic_word_occurrence,
    multi_pros,
    pc,                                      \* position inside inference()
    iter, doc_index, topic, word_index,      \* locals of single_iteration / _init
    old_topic,                               \* topic as read at line 131 (-1: none yet)
    numerator, denominator,                  \* per topic, as left by the score loop
    r,                                       \* r of the sample_new_topic call under test
    run,                                     \* inference() calls started
    seeded, rng_seed, rng_pos,               \* the random source
    first_run,                               \* a seeded first run, kept for comparison
    inserted,                                \* per document: the topic whose statistics
                                             \* hold its contribution (-1: none)
    before,                                  \* statistics and assignments as the current
                                             \* update found them
    moved_in_pass,                           \* an update of the current pass has changed
                                             \* a document's topic
    pass_log,                                \* the steps of the current pass, in order:
                                             \* <<step, doc_index>>
    top_words                                \* per topic, the ids write_topic_top_words
                                             \* writes, in order

config == <<corpus_file, vocab_file, alpha, beta, n_topics, n_iterations,
            n_words_each_topic, seeded, rng_seed>>
corpus == <<doc_ids, documents, doc_word_count, doc_word_occurrence, n_documents>>
vocabulary == <<id2word_vocabulary, n_vocabulary>>
statistics == <<topic_doc_count, topic_word_count, topic_word_occurrence>>
score_locals == <<numerator, denominator>>
rng == <<rng_pos>>
update_history == <<inserted, before, moved_in_pass, pass_log>>

vars == <<config, corpus, vocabulary, statistics, topic_assignments, multi_pros,
          pc, iter, doc_index, topic, word_index, old_topic, score_locals, r, run, rng,
          first_run, update_history, top_words>>


\* ------------------------------------------------------ the random source
\* Unseeded, every draw is free.  Seeded (random.seed(s) before the run), the
\* source is a fixed stream of raw values 0..DrawGrid-1, here periodic, from
\* which randint and uniform derive their results in turn.
RawDraw == rng_seed[(rng_pos % Len(rng_seed)) + 1]

\* random.randint(0, n_topics - 1)
RandInt == IF seeded THEN {RawDraw % n_topics} ELSE 0..(n_topics - 1)

\* random.uniform(0.0, 1.0) on the grid: g / DrawGrid
Uniform == IF seeded THEN {Frac(RawDraw, DrawGrid)}
           ELSE {Frac(g, DrawGrid) : g \in 0..(DrawGrid - 1)}

Drawn == IF seeded THEN rng_pos + 1 ELSE rng_pos

\* ------------------------------------------------------------------- Init
\* n_words_each_topic=20, the default of __init__
TopWordsDefault == 20

NoSnapshot == [doc_count |-> <<>>, word_count |-> <<>>, word_occurrence |-> <<>>,
               assignments |-> <<>>]

NoRun == [init_assignments |-> <<>>, assignments |-> <<>>, doc_count |-> <<>>,
          word_count |-> <<>>, word_occurrence |-> <<>>, finished |-> FALSE]

InitProcess ==
    /\ doc_ids = <<>>
    /\ id2word_vocabulary = <<>>
    /\ documents = <<>>
    /\ doc_word_count = <<>>
    /\ doc_word_occurrence = <<>>
    /\ topic_assignments = <<>>
    /\ n_documents = 0
    /\ n_vocabulary = 0
    /\ topic_doc_count = <<>>
    /\ topic_word_count = <<>>
    /\ topic_word_occurrence = <<>>
    /\ iter = 0
    /\ doc_index = 0
    /\ topic = 0
    /\ word_index = 0
    /\ old_topic = -1
    /\ numerator = <<>>
    /\ denominator = <<>>
    /\ r = FInt(0)
    /\ run = 1
    /\ rng_pos = 0
    /\ first_run = NoRun
    /\ inserted = <<>>
    /\ before = NoSnapshot
    /\ moved_in_pass = FALSE
    /\ pass_log = <<>>
    /\ top_words = <<>>

\* GSDMM(corpus_loc, vocab_loc, alpha, beta, n_topics, n_iterations) in a
\* fresh process, inference() just called
Init ==
    /\ \E f \in CorpusFiles :
         /\ corpus_file = f.records
         /\ vocab_file = VocabFile(f.n_words)
    /\ alpha \in Alphas
    /\ beta \in Betas
    /\ n_topics \in 1..MaxTopics
    /\ n_iterations \in 1..MaxIterations
    /\ n_words_each_topic = TopWordsDefault
    /\ seeded = FALSE
    /\ rng_seed = <<>>
    /\ pc = "start"
    /\ multi_pros = <<>>
    /\ InitProcess

\* ---------------------------------------------------------- analyse_corpus
analyse_corpus ==
    /\ pc = "start"
    /\ doc_ids' = doc_ids \o [i \in DOMAIN corpus_file |-> corpus_file[i][1]]
    /\ documents' = documents \o [i \in DOMAIN corpus_file |-> corpus_file[i][2]]
    /\ doc_word_count' =
         doc_word_count \o [i \in DOMAIN corpus_file |-> Len(corpus_file[i][2])]
    /\ doc_word_occurrence' =
         doc_word_occurrence \o [i \in DOMAIN corpus_file |-> Counter(corpus_file[i][2])]
    /\ n_documents' = Len(documents')
    /\ pc' = "init"
    /\ UNCHANGED <<config, vocabulary, statistics, topic_assignments, multi_pros,
                   iter, doc_index, topic, word_index, score_locals, r, run, rng,
                   first_run, old_topic,
                   top_words, update_history>>

\* --------------------------------------------------------- load_vocabulary
\* id2word_vocabulary as <<id, word>> pairs; a later record of an id replaces
\* the word, a new id is added
RECURSIVE DictSetAll(_, _)
DictSetAll(d, recs) ==
    IF recs = <<>> THEN d
    ELSE LET word == Head(recs)[1]
             id == Head(recs)[2]
             d1 == IF id \in DictKeys(d)
                   THEN [i \in DOMAIN d |-> IF d[i][1] = id THEN <<id, word>> ELSE d[i]]
                   ELSE Append(d, <<id, word>>)
         IN  DictSetAll(d1, Tail(recs))

load_vocabulary(d, file) == DictSetAll(d, file)

\* _init, lines 61-67: the vocabulary, then zeroed statistics
init_statistics ==
    /\ pc = "init"
    /\ id2word_vocabulary' = load_vocabulary(id2word_vocabulary, vocab_file)
    /\ n_vocabulary' = Len(id2word_vocabulary')
    /\ topic_doc_count' = Zeros(n_topics)
    /\ topic_word_count' = Zeros(n_topics)
    /\ topic_word_occurrence' = [k \in 1..n_topics |-> Zeros(n_vocabulary')]
    /\ doc_index' = 0
    /\ inserted' = [d \in 1..Len(documents) |-> -1]
    /\ pc' = "init_assign"
    /\ UNCHANGED <<config, corpus, topic_assignments, multi_pros, iter, topic,
                   word_index, score_locals, r, run, rng, first_run, old_topic,
                   top_words, before, moved_in_pass, pass_log>>

\* for word in set(doc): row[word] += 1
RECURSIVE AddTokensDistinct(_, _)
AddTokensDistinct(row, doc) ==
    IF doc = <<>> THEN row
    ELSE LET rest == AddTokensDistinct(row, Tail(doc))
         IN  IF \E i \in DOMAIN Tail(doc) : Tail(doc)[i] = Head(doc)
             THEN rest
             ELSE Put(rest, Head(doc), At(rest, Head(doc)) + 1)

\* for word in doc: row[word] += 1
RECURSIVE AddTokens(_, _)
AddTokens(row, doc) ==
    IF doc = <<>> THEN row
    ELSE AddTokens(Add(row, Head(doc), 1), Tail(doc))

\* line 78: the position of the first token whose id is no index of the row,
\* len(doc) if every token is one
FirstIndexError(row, doc) ==
    LET bad == {i \in 0..(Len(doc) - 1) : ~InRange(row, doc[i + 1])}
    IN  IF bad = {} THEN Len(doc) ELSE CHOOSE i \in bad : \A j \in bad : i <= j

\* _init, lines 70-78, for one document of self.documents; an IndexError at
\* line 78 ends the run with the tokens before it counted
init_assign ==
    /\ pc = "init_assign"
    /\ doc_index < Len(documents)
    /\ \E t \in RandInt :
         /\ rng_pos' = Drawn
         /\ topic' = t
         /\ LET doc == At(documents, doc_index)
                row == At(topic_word_occurrence, t)
                stop == FirstIndexError(row, doc)
            IN  /\ topic_assignments' = Append(topic_assignments, t)
                /\ topic_doc_count' = Add(topic_doc_count, t, 1)
                /\ topic_word_count' = Add(topic_word_count, t, Len(doc))
                /\ topic_word_occurrence' =
                     Put(topic_word_occurrence, t, AddTokens(row, SubSeq(doc, 1, stop)))
                /\ inserted' = Put(inserted, doc_index, t)
                /\ pc' = IF stop < Len(doc) THEN "error" ELSE "init_assign"
                /\ doc_index' = IF stop < Len(doc) THEN doc_index ELSE doc_index + 1
    /\ UNCHANGED <<config, corpus, vocabulary, multi_pros, iter, word_index,
                   score_locals, r, run, first_run, old_topic, top_words, before,
                   moved_in_pass, pass_log>>

\* _init, line 80, and inference reaching line 174
init_finish ==
    /\ pc = "init_assign"
    /\ doc_index = Len(documents)
    /\ multi_pros' = [t \in 1..n_topics |-> FInt(0)]
    /\ iter' = 0
    /\ pc' = "iterate"
    /\ first_run' = IF seeded /\ run = 1
                    THEN [first_run EXCEPT !.init_assignments = topic_assignments]
                    ELSE first_run
    /\ UNCHANGED <<config, corpus, vocabulary, statistics, topic_assignments,
                   doc_index, topic, word_index, old_topic, score_locals, r, run,
                   rng,
                   top_words, update_history>>


\* -------------------------------------------------------- sample_new_topic
\* the scan comparing each weight, not the running sum, with r
RECURSIVE SampleScanNoSum(_, _, _, _)
SampleScanNoSum(weights, rr, i, acc) ==
    IF i >= Len(weights) THEN Len(weights) - 1
    ELSE IF FGt(At(weights, i), rr) THEN i ELSE SampleScanNoSum(weights, rr, i + 1, acc)

\* lines 116-121: the scan from index i with running sum acc
RECURSIVE SampleScan(_, _, _, _)
SampleScan(weights, rr, i, acc) ==
    IF i >= Len(weights) THEN Len(weights) - 1
    ELSE LET s == FAdd(acc, At(weights, i))
         IN  IF FGt(s, rr) THEN i ELSE SampleScan(weights, rr, i + 1, s)

\* r = sum(multi_pros), the draw left out
SampleRWhole(weights, u) == SumFloats(weights)

\* line 115, with the uniform draw u
SampleR(weights, u) == FMul(u, SumFloats(weights))

\* the draws u in [0, 1) for which r is the sum of the weights before an index
LowerEnds(weights) ==
    LET total == SumFloats(weights)
        ends == IF FIsZero(total) THEN {}
                ELSE {FDiv(SumFloats(SubSeq(weights, 1, i)), total) :
                        i \in 0..(Len(weights) - 1)}
    IN  {u \in ends : ~FGt(FInt(0), u) /\ FGt(FInt(1), u)}

\* random.uniform(0.0, 1.0) in a call with these weights: a point of the grid
\* or, from an unseeded source, a draw that puts r on the sum of the weights
\* before an index
Draws(weights) == IF seeded THEN Uniform ELSE Uniform \cup LowerEnds(weights)

sample_new_topic(weights, u) == SampleScan(weights, SampleR(weights, u), 0, FInt(0))

\* ------------------------------------------------------- single_iteration
\* range(self.n_iterations + 1)
PassesLeftInclusive == iter <= n_iterations

\* line 174: range(self.n_iterations) has a pass left
PassesLeft == iter < n_iterations

\* line 174: the next call of single_iteration, or line 175
inference_loop ==
    /\ pc = "iterate"
    /\ IF PassesLeft
       THEN /\ iter' = iter + 1
            /\ doc_index' = 0
            /\ pc' = IF n_documents > 0 THEN "unassign" ELSE "iterate"
            /\ first_run' = first_run
            /\ moved_in_pass' = FALSE
            /\ pass_log' = <<>>
       ELSE /\ pc' = "done"
            /\ first_run' = IF seeded /\ run = 1
                            THEN [first_run EXCEPT
                                    !.assignments = topic_assignments,
                                    !.doc_count = topic_doc_count,
                                    !.word_count = topic_word_count,
                                    !.word_occurrence = topic_word_occurrence,
                                    !.finished = TRUE]
                            ELSE first_run
            /\ UNCHANGED <<iter, doc_index, moved_in_pass, pass_log>>
    /\ UNCHANGED <<config, corpus, vocabulary, statistics, topic_assignments,
                   multi_pros, topic, word_index, old_topic, score_locals, r, run,
                   rng, top_words, inserted, before>>

\* lines 130-134: the document's topic, its document and word counts
unassign ==
    /\ pc = "unassign"
    /\ LET doc == At(documents, doc_index)
           t == At(topic_assignments, doc_index)
       IN  /\ topic' = t
           /\ old_topic' = t
           /\ topic_doc_count' = Sub(topic_doc_count, t, 1)
           /\ topic_word_count' = Sub(topic_word_count, t, Len(doc))
    /\ before' = [doc_count |-> topic_doc_count, word_count |-> topic_word_count,
                  word_occurrence |-> topic_word_occurrence,
                  assignments |-> topic_assignments]
    /\ inserted' = Put(inserted, doc_index, -1)
    /\ pass_log' = Append(pass_log, <<"unassign", doc_index>>)
    /\ word_index' = 0
    /\ pc' = IF Len(At(doc_word_occurrence, doc_index)) = 0
             THEN "score" ELSE "unassign_words"
    /\ UNCHANGED <<config, corpus, vocabulary, topic_word_occurrence,
                   topic_assignments, multi_pros, iter, doc_index, score_locals, r,
                   run, rng, first_run, top_words, moved_in_pass>>

\* lines 135-136, for one word of the document's occurrence table
unassign_word ==
    /\ pc = "unassign_words"
    /\ LET occ == At(doc_word_occurrence, doc_index)
           word == At(occ, word_index)[1]
           row == At(topic_word_occurrence, topic)
       IN  /\ topic_word_occurrence' =
                Put(topic_word_occurrence, topic,
                    Sub(row, word, DictGet(occ, word)))
           /\ pc' = IF word_index + 1 < Len(occ) THEN "unassign_words" ELSE "score"
    /\ word_index' = word_index + 1
    /\ UNCHANGED <<config, corpus, vocabulary, topic_doc_count, topic_word_count,
                   topic_assignments, multi_pros, iter, doc_index, topic,
                   score_locals, r, run, rng, first_run, old_topic,
                   top_words, update_history>>

\* lines 139-140: the divisor of rule1
Rule1Divisor == FAdd(FInt(n_documents - 1), FMul(FInt(n_topics), alpha))

Rule1(t) == FDiv(FAdd(FInt(At(topic_doc_count, t)), alpha), Rule1Divisor)

\* the loop of line 146 run over range(len(doc) + 1)
RECURSIVE DenominatorInclusive(_, _)
DenominatorInclusive(t, n) ==
    LET factor == FAdd(FAdd(FInt(At(topic_word_count, t)),
                            FMul(FInt(n_vocabulary), beta)),
                       FInt(n))
    IN  IF n = 0 THEN factor ELSE FMul(DenominatorInclusive(t, n - 1), factor)

\* line 146, over the token positions 0..n-1
RECURSIVE Denominator(_, _)
Denominator(t, n) ==
    IF n = 0 THEN FInt(1)
    ELSE FMul(Denominator(t, n - 1),
              FAdd(FAdd(FInt(At(topic_word_count, t)),
                        FMul(FInt(n_vocabulary), beta)),
                   FInt(n - 1)))

\* lines 152-153: the factors of one token position, j = 0..c-1
RECURSIVE TokenFactors(_, _, _)
TokenFactors(t, word, c) ==
    IF c = 0 THEN FInt(1)
    ELSE FMul(TokenFactors(t, word, c - 1),
              FAdd(FAdd(FInt(At(At(topic_word_occurrence, t), word)), beta),
                   FInt(c - 1)))

\* lines 142-153, over the token positions 0..n-1 of the document
RECURSIVE Numerator(_, _, _, _)
Numerator(t, doc, occ, n) ==
    IF n = 0 THEN FInt(1)
    ELSE FMul(Numerator(t, doc, occ, n - 1),
              TokenFactors(t, At(doc, n - 1), DictGet(occ, At(doc, n - 1))))

\* the first topic whose score divides by zero, n_topics if none does
FirstZeroDivision(doc) ==
    LET bad == {t \in 0..(n_topics - 1) :
                  FIsZero(Rule1Divisor) \/ FIsZero(Denominator(t, Len(doc)))}
    IN  IF bad = {} THEN n_topics ELSE CHOOSE t \in bad : \A t2 \in bad : t <= t2

\* lines 138-157: multi_pros for every topic; a ZeroDivisionError ends the run
score ==
    /\ pc = "score"
    /\ LET doc == At(documents, doc_index)
           occ == At(doc_word_occurrence, doc_index)
       IN  \E fail \in {FirstZeroDivision(doc)} :
           \E reached \in {IF fail = n_topics \/ FIsZero(Rule1Divisor)
                            THEN fail ELSE fail + 1} :
           \E num \in {[t \in 1..reached |-> Numerator(t - 1, doc, occ, Len(doc))]} :
           \E den \in {[t \in 1..reached |-> Denominator(t - 1, Len(doc))]} :
               /\ numerator' = num
               /\ denominator' = den
               /\ multi_pros' =
                    [t \in 1..Len(multi_pros) |->
                       IF t - 1 < fail
                       THEN FMul(Rule1(t - 1), FDiv(num[t], den[t]))
                       ELSE multi_pros[t]]
               /\ pc' = IF fail = n_topics THEN "sample" ELSE "error"
    /\ pass_log' = Append(pass_log, <<"score", doc_index>>)
    /\ UNCHANGED <<config, corpus, vocabulary, statistics, topic_assignments, iter,
                   doc_index, topic, word_index, r, run, rng, first_run, old_topic,
                   top_words, inserted, before, moved_in_pass>>

\* line 160: the call of sample_new_topic, with its draw
sample ==
    /\ pc = "sample"
    /\ \E u \in Draws(multi_pros) :
         /\ rng_pos' = Drawn
         /\ topic' = sample_new_topic(multi_pros, u)
    /\ pc' = "assign"
    /\ pass_log' = Append(pass_log, <<"sample", doc_index>>)
    /\ UNCHANGED <<config, corpus, vocabulary, statistics, topic_assignments,
                   multi_pros, iter, doc_index, word_index, score_locals, r, run,
                   first_run, old_topic, top_words, inserted, before, moved_in_pass>>

\* for word in words_occurrence: row[word] += 1
RECURSIVE AddOccurrencesOnce(_, _, _)
AddOccurrencesOnce(row, occ, n) ==
    IF n = 0 THEN row
    ELSE LET done == AddOccurrencesOnce(row, occ, n - 1)
             word == occ[n][1]
         IN  Put(done, word, At(done, word) + 1)

\* for word in words_occurrence: row[word] += words_occurrence[word]
RECURSIVE AddOccurrences(_, _, _)
AddOccurrences(row, occ, n) ==
    IF n = 0 THEN row
    ELSE LET done == AddOccurrences(row, occ, n - 1)
             word == occ[n][1]
         IN  Add(done, word, DictGet(occ, word))

\* lines 163-167: the document enters the sampled topic
assign ==
    /\ pc = "assign"
    /\ LET doc == At(documents, doc_index)
           occ == At(doc_word_occurrence, doc_index)
       IN  /\ topic_assignments' = Put(topic_assignments, doc_index, topic)
           /\ topic_doc_count' = Add(topic_doc_count, topic, 1)
           /\ topic_word_count' = Add(topic_word_count, topic, Len(doc))
           /\ topic_word_occurrence' =
                Put(topic_word_occurrence, topic,
                    AddOccurrences(At(topic_word_occurrence, topic), occ, Len(occ)))
    /\ inserted' = Put(inserted, doc_index, topic)
    /\ moved_in_pass' = (moved_in_pass \/ topic # old_topic)
    /\ pass_log' = Append(pass_log, <<"assign", doc_index>>)
    /\ IF doc_index + 1 < n_documents
       THEN /\ doc_index' = doc_index + 1
            /\ pc' = "unassign"
       ELSE /\ doc_index' = doc_index
            /\ pc' = "iterate"
    /\ UNCHANGED <<config, corpus, vocabulary, multi_pros, iter, topic, word_index,
                   score_locals, r, run, rng, first_run, old_topic, top_words,
                   before>>

Next ==
    \/ analyse_corpus
    \/ init_statistics
    \/ init_assign
    \/ init_finish
    \/ inference_loop
    \/ unassign
    \/ unassign_word
    \/ score
    \/ sample
    \/ assign

Spec == Init /\ [][Next]_vars

\* ------------------------------------- corpora with word ids outside [0, V)
\* id 2 with V = 2 (no index of a row); ids -1 (a row's last index in Python);
\* id -3 with V = 2 (no index of a row), in the second document
IdStreams ==
    { [records |-> << <<40, <<0, 2>>>>, <<41, <<1>>>>, <<42, <<0>>>> >>,
       n_words |-> 2],
      [records |-> << <<50, <<-1, 0>>>>, <<51, <<1, -1>>>>, <<52, <<0>>>> >>,
       n_words |-> 2],
      [records |-> << <<60, <<1>>>>, <<61, <<0, -3>>>>, <<62, <<>>>> >>,
       n_words |-> 2] }

IdFiles ==
    UNION { {[records |-> p, n_words |-> s.n_words] : p \in Prefixes(s.records)} :
            s \in IdStreams }

InitIds ==
    /\ \E f \in IdFiles :
         /\ corpus_file = f.records
         /\ vocab_file = VocabFile(f.n_words)
    /\ alpha \in Alphas
    /\ beta \in Betas
    /\ n_topics \in 1..MaxTopics
    /\ n_iterations \in 1..MaxIterations
    /\ n_words_each_topic = TopWordsDefault
    /\ seeded = FALSE
    /\ rng_seed = <<>>
    /\ pc = "start"
    /\ multi_pros = <<>>
    /\ InitProcess

SpecIds == InitIds /\ [][Next]_vars

\* inference() runs on one thread without suspension points: a step that can
\* be taken is taken
FairSpec == Spec /\ WF_vars(Next)

\* ------------------------------------------- sample_new_topic on its own
\* weights 0, 1/2, 1, ... in lists of 1..MaxWeights entries
WeightValues == {Frac(k, 2) : k \in 0..MaxWeight}

WeightLists == UNION {[1..n -> WeightValues] : n \in 1..MaxWeights}

InitSample ==
    /\ corpus_file = <<>>
    /\ vocab_file = <<>>
    /\ alpha \in Alphas
    /\ beta = FInt(1)
    /\ n_iterations = 1
    /\ n_words_each_topic = TopWordsDefault
    /\ seeded = FALSE
    /\ rng_seed = <<>>
    /\ InitProcess
    /\ multi_pros \in WeightLists
    /\ n_topics = Len(multi_pros)
    /\ pc = "call"

\* topic = self.sample_new_topic(multi_pros), lines 114-121
call_sample_new_topic ==
    /\ pc = "call"
    /\ \E u \in Draws(multi_pros) :
         /\ r' = SampleR(multi_pros, u)
         /\ topic' = sample_new_topic(multi_pros, u)
    /\ pc' = "returned"
    /\ UNCHANGED <<config, corpus, vocabulary, statistics, topic_assignments,
                   multi_pros, iter, doc_index, word_index, score_locals, run, rng,
                   first_run, old_topic,
                   top_words, update_history>>

NextSample == call_sample_new_topic

SpecSample == InitSample /\ [][NextSample]_vars

\* ----------------------------------------------------- write_topic_top_words
Reverse(s) == [i \in 1..Len(s) |-> s[Len(s) + 1 - i]]

\* x put into a list in ascending key order, behind the entries whose key is
\* not greater than its own
InsertByKey(list, x, key) ==
    LET n == Cardinality({i \in DOMAIN list : At(key, list[i]) <= At(key, x)})
    IN  SubSeq(list, 1, n) \o <<x>> \o SubSeq(list, n + 1, Len(list))

\* a stable sort in ascending key order
RECURSIVE SortByKey(_, _)
SortByKey(ids, key) ==
    IF ids = <<>> THEN <<>>
    ELSE InsertByKey(SortByKey(SubSeq(ids, 1, Len(ids) - 1), key), ids[Len(ids)], key)

\* sorted(ids, key=...)[::-1]
SortedThenReversed(ids, key) == Reverse(SortByKey(ids, key))

\* sorted(ids, key=..., reverse=True): the list is reversed, sorted stably in
\* ascending order and reversed again
SortedReverse(ids, key) == Reverse(SortByKey(Reverse(ids), key))

\* lines 191-198 for one topic: the ids written, in order
TopWordsIndex(word_occurrence, n) ==
    LET top_words_index ==
            SortedReverse([i \in 1..Len(word_occurrence) |-> i - 1], word_occurrence)
        length == IF Len(top_words_index) >= n THEN n ELSE Len(top_words_index)
    IN  SubSeq(top_words_index, 1, length)

\* line 199: the line written for _id
TopWordLine(word_occurrence, _id) ==
    [id |-> _id, word |-> DictGet(id2word_vocabulary, _id),
     count |-> At(word_occurrence, _id)]

\* one topic with any counts, or that topic and an empty one
OccurrenceRows == UNION {[1..v -> 0..MaxCount] : v \in 1..MaxVocab}

OccurrenceTables == UNION { {<<row>>, <<row, Zeros(Len(row))>>} : row \in OccurrenceRows }

\* a finished model about to be written: statistics and vocabulary of the
\* same size
InitTopWords ==
    /\ topic_word_occurrence \in OccurrenceTables
    /\ n_topics = Len(topic_word_occurrence)
    /\ n_vocabulary = Len(topic_word_occurrence[1])
    /\ vocab_file = VocabFile(n_vocabulary)
    /\ id2word_vocabulary = load_vocabulary(<<>>, vocab_file)
    /\ n_words_each_topic \in 1..MaxTopWords
    /\ corpus_file = <<>>
    /\ alpha \in Alphas
    /\ beta = FInt(1)
    /\ n_iterations = 1
    /\ seeded = FALSE
    /\ rng_seed = <<>>
    /\ doc_ids = <<>>
    /\ documents = <<>>
    /\ doc_word_count = <<>>
    /\ doc_word_occurrence = <<>>
    /\ topic_assignments = <<>>
    /\ n_documents = 0
    /\ topic_doc_count = Zeros(n_topics)
    /\ topic_word_count = [k \in 1..n_topics |-> SumInts(topic_word_occurrence[k])]
    /\ multi_pros = [k \in 1..n_topics |-> FInt(0)]
    /\ iter = 0
    /\ doc_index = 0
    /\ topic = 0
    /\ word_index = 0
    /\ old_topic = -1
    /\ numerator = <<>>
    /\ denominator = <<>>
    /\ r = FInt(0)
    /\ run = 1
    /\ rng_pos = 0
    /\ first_run = NoRun
    /\ inserted = <<>>
    /\ before = NoSnapshot
    /\ moved_in_pass = FALSE
    /\ pass_log = <<>>
    /\ top_words = <<>>
    /\ pc = "done"

\* lines 185-199: the lines of every topic, in the order written
write_topic_top_words ==
    /\ pc = "done"
    /\ top_words' =
         [k \in 1..n_topics |->
            LET word_occurrence == At(topic_word_occurrence, k - 1)
                ids == TopWordsIndex(word_occurrence, n_words_each_topic)
            IN  [i \in 1..Len(ids) |-> TopWordLine(word_occurrence, ids[i])]]
    /\ pc' = "written"
    /\ UNCHANGED <<config, corpus, vocabulary, statistics, topic_assignments,
                   multi_pros, iter, doc_index, topic, word_index, old_topic,
                   score_locals, r, run, rng, first_run, update_history>>

NextTopWords == write_topic_top_words

SpecTopWords == InitTopWords /\ [][NextTopWords]_vars

\* ------------------------------------ repeated inference() in one process
\* A run under a seeded random source, then the same call again with the
\* source seeded alike: the class-level containers are those the first call
\* left.
Seeds == [1..SeedPeriod -> 0..(DrawGrid - 1)]

InitRuns ==
    /\ \E f \in CorpusFiles :
         /\ corpus_file = f.records
         /\ vocab_file = VocabFile(f.n_words)
    /\ alpha \in Alphas
    /\ beta \in Betas
    /\ n_topics \in 1..MaxTopics
    /\ n_iterations \in 1..MaxIterations
    /\ n_words_each_topic = TopWordsDefault
    /\ seeded = TRUE
    /\ rng_seed \in Seeds
    /\ pc = "start"
    /\ multi_pros = <<>>
    /\ InitProcess

\* inference() called again with the same files and configuration
inference_again ==
    /\ pc = "done"
    /\ run < MaxRuns
    /\ run' = run + 1
    /\ rng_pos' = 0
    /\ pc' = "start"
    /\ UNCHANGED <<config, corpus, vocabulary, statistics, topic_assignments,
                   multi_pros, iter, doc_index, topic, word_index, score_locals, r,
                   first_run, old_topic,
                   top_words, update_history>>

NextRuns == Next \/ inference_again

SpecRuns == InitRuns /\ [][NextRuns]_vars



\* -------------------------------------------------------------- properties
Topics == 0..(n_topics - 1)

Words == 0..(n_vocabulary - 1)

\* _init has returned, or a per-document update has just been completed
Settled == pc \in {"iterate", "unassign", "done"}

\* the update just completed took its document to another topic
JustMoved ==
    /\ pc \in {"iterate", "unassign"}
    /\ old_topic \notin {-1, topic}

\* the document of the update just completed
JustUpdated == IF pc = "unassign" /\ doc_index > 0 THEN doc_index - 1 ELSE n_documents - 1

HasRepeat(d) == Len(At(doc_word_occurrence, d)) < Len(At(documents, d))

\* the statistics counted afresh from the first n entries of the assignments
RECURSIVE RecountDocs(_, _)
RecountDocs(k, n) ==
    IF n = 0 THEN 0
    ELSE RecountDocs(k, n - 1) + (IF At(topic_assignments, n - 1) = k THEN 1 ELSE 0)

RECURSIVE RecountWords(_, _)
RecountWords(k, n) ==
    IF n = 0 THEN 0
    ELSE RecountWords(k, n - 1)
         + (IF At(topic_assignments, n - 1) = k THEN Len(At(documents, n - 1)) ELSE 0)

RECURSIVE RecountOccurrence(_, _, _)
RecountOccurrence(k, w, n) ==
    IF n = 0 THEN 0
    ELSE RecountOccurrence(k, w, n - 1)
         + (IF At(topic_assignments, n - 1) = k
            THEN Occurrences(At(documents, n - 1), w) ELSE 0)

\* C1: after _init and after every completed per-document update the three
\* statistics are exactly what a recount from the assignment vector gives:
\* documents per topic, tokens per topic, occurrences per topic and word.
C1_StatisticsMatchAssignments ==
    Settled =>
        \A k \in Topics :
            /\ At(topic_doc_count, k) = RecountDocs(k, Len(topic_assignments))
            /\ At(topic_word_count, k) = RecountWords(k, Len(topic_assignments))
            /\ \A w \in Words :
                 At(At(topic_word_occurrence, k), w)
                   = RecountOccurrence(k, w, Len(topic_assignments))

\* the second pass is over and its last update has moved a document with a
\* repeated word
C1_Witness ==
    /\ pc = "iterate"
    /\ iter = 2
    /\ n_documents = 3
    /\ JustMoved
    /\ HasRepeat(JustUpdated)

TotalTokens == SumInts([i \in DOMAIN corpus_file |-> Len(corpus_file[i][2])])

\* C2: after _init, after every completed update and after every pass the
\* document counts add up to n_documents and the word counts to the number
\* of tokens of the corpus.
C2_TotalsConserved ==
    Settled =>
        /\ SumInts(topic_doc_count) = n_documents
        /\ SumInts(topic_word_count) = TotalTokens

\* a finished run of three documents over two topics, both in use, whose
\* last update moved its document
C2_Witness ==
    /\ pc = "done"
    /\ n_documents = 3
    /\ n_topics = 2
    /\ TotalTokens >= 4
    /\ \A k \in Topics : At(topic_doc_count, k) > 0
    /\ old_topic \notin {-1, topic}

\* C5: no entry of the three statistics is ever negative, the states between
\* the single decrements of a removal included.
C5_CountsNonNegative ==
    /\ \A k \in DOMAIN topic_doc_count : topic_doc_count[k] >= 0
    /\ \A k \in DOMAIN topic_word_count : topic_word_count[k] >= 0
    /\ \A k \in DOMAIN topic_word_occurrence :
         \A w \in DOMAIN topic_word_occurrence[k] : topic_word_occurrence[k][w] >= 0

\* between the two decrements of a two-word document that was alone in its
\* topic: the removal takes every count of the topic down to zero
C5_Witness ==
    /\ pc = "unassign_words"
    /\ word_index = 1
    /\ Len(At(doc_word_occurrence, doc_index)) = 2
    /\ At(topic_doc_count, topic) = 0
    /\ At(topic_word_count, topic) = 0
    /\ iter = 2

\* C6: after _init, after every completed update and after every pass the
\* word count of a topic is the sum of its per-word occurrence counts.
C6_WordCountIsRowSum ==
    Settled =>
        \A k \in Topics :
            At(topic_word_count, k) = SumInts(At(topic_word_occurrence, k))

\* mid-pass, a topic holding at least three tokens of two different words
C6_Witness ==
    /\ pc = "unassign"
    /\ doc_index >= 1
    /\ iter = 2
    /\ \E k \in Topics :
         /\ At(topic_word_count, k) >= 3
         /\ Cardinality({w \in Words : At(At(topic_word_occurrence, k), w) > 0}) >= 2
    /\ JustMoved


\* a > b on fractions, by cross multiplication
Exceeds(a, b) == a[1] * b[2] > b[1] * a[2]

CurrentDoc == At(documents, doc_index)

CurrentOcc == At(doc_word_occurrence, doc_index)

\* the rising factorial of every distinct word of the document, once each
RECURSIVE RisingProduct(_, _, _)
RisingProduct(t, occ, n) ==
    IF n = 0 THEN FInt(1)
    ELSE FMul(RisingProduct(t, occ, n - 1), TokenFactors(t, occ[n][1], occ[n][2]))

\* C3: when the score loop has run, the numerator of every topic is the
\* product, over the distinct words w of the document, of the rising
\* factorial (n_t^w + beta)(n_t^w + beta + 1)...(n_t^w + beta + c_w - 1),
\* each word's factorial taken once.
C3_NumeratorOncePerDistinctWord ==
    pc = "sample" =>
        \A t \in Topics :
            numerator[t + 1] = RisingProduct(t, CurrentOcc, Len(CurrentOcc))

\* weights[0] + ... + weights[i]
PrefixSum(weights, i) == SumFloats(SubSeq(weights, 1, i + 1))

PositiveSum(weights) == Exceeds(SumFloats(weights), FInt(0))

\* C4: for non-negative weights of positive sum and a draw u in [0,1),
\* sample_new_topic returns the smallest index whose prefix sum exceeds
\* r = u * sum(weights); weights [1,0,0] give index 0 for every draw.
C4_SmallestExceedingIndex ==
    (pc = "returned" /\ PositiveSum(multi_pros)) =>
        /\ topic \in 0..(Len(multi_pros) - 1)
        /\ Exceeds(PrefixSum(multi_pros, topic), r)
        /\ \A i \in 0..(topic - 1) : ~Exceeds(PrefixSum(multi_pros, i), r)
        /\ (multi_pros = <<FInt(1), FInt(0), FInt(0)>> => topic = 0)

\* a draw r > 0 that passes a positive first weight and a zero second one
C4_Witness ==
    /\ pc = "returned"
    /\ Len(multi_pros) = 3
    /\ Exceeds(multi_pros[1], FInt(0))
    /\ multi_pros[2] = FInt(0)
    /\ Exceeds(r, FInt(0))
    /\ topic = 2

\* C7: when every weight is exactly zero sample_new_topic returns the last
\* index, whatever the draw.
C7_AllZeroGivesLastIndex ==
    (pc = "returned" /\ \A i \in DOMAIN multi_pros : multi_pros[i] = FInt(0)) =>
        topic = Len(multi_pros) - 1

C7_Witness ==
    /\ pc = "returned"
    /\ multi_pros = <<FInt(0), FInt(0), FInt(0)>>
    /\ topic = 2

\* (topic_doc_count[t] + alpha) / (n_documents - 1 + n_topics * alpha), in
\* integers
Popularity(t) ==
    Frac(At(topic_doc_count, t) * alpha[2] + alpha[1],
         (n_documents - 1) * alpha[2] + n_topics * alpha[1])

InUpdate == pc \in {"unassign", "unassign_words", "score", "sample", "assign"}

C8_EmptyDocumentScore ==
    /\ (pc = "sample" /\ CurrentDoc = <<>>) =>
          \A t \in Topics :
              /\ numerator[t + 1] = FInt(1)
              /\ denominator[t + 1] = FInt(1)
              /\ multi_pros[t + 1] = Popularity(t)
    /\ pc = "error" => CurrentDoc # <<>>

C8_EmptyDocumentKeepsWords ==
    (InUpdate /\ CurrentDoc = <<>>) =>
        /\ topic_word_count' = topic_word_count
        /\ topic_word_occurrence' = topic_word_occurrence

\* C8: for an empty document the score loop leaves numerator = denominator
\* = 1 for every topic and never divides by zero, so multi_pros[t] is rule1
\* alone; and no step of its update changes topic_word_count or
\* topic_word_occurrence.
C8_EmptyDocument == []C8_EmptyDocumentScore /\ [][C8_EmptyDocumentKeepsWords]_vars

\* an empty document scored against topics that hold words, beta = 0
C8_Witness ==
    /\ pc = "sample"
    /\ CurrentDoc = <<>>
    /\ n_documents = 3
    /\ n_topics = 2
    /\ beta = FInt(0)
    /\ \E t \in Topics : At(topic_word_count, t) > 0
    /\ \E t \in Topics : At(topic_word_count, t) = 0

\* C9: a second inference() with the same files, configuration and seed
\* has, after _init and at its end, the assignment vector the first had
\* there, and ends with the same statistics.
C9_SameSeedSameRun ==
    /\ (run = 2 /\ pc = "iterate" /\ iter = 0) =>
          topic_assignments = first_run.init_assignments
    /\ (run = 2 /\ pc = "done") =>
          /\ topic_assignments = first_run.assignments
          /\ topic_doc_count = first_run.doc_count
          /\ topic_word_count = first_run.word_count
          /\ topic_word_occurrence = first_run.word_occurrence

\* the step is the insertion of the current document into topic t
Inserts(t) ==
    \/ pc = "init_assign" /\ doc_index' = doc_index + 1 /\ topic' = t
    \/ pc = "assign" /\ topic = t

WordsInserted(t) ==
    /\ topic_word_count' = Put(topic_word_count, t, At(topic_word_count, t) + Len(CurrentDoc))
    /\ \A k \in Topics : \A w \in Words :
         At(At(topic_word_occurrence', k), w)
           = At(At(topic_word_occurrence, k), w)
             + (IF k = t THEN Occurrences(CurrentDoc, w) ELSE 0)

C10_InsertAddsLength ==
    \A t \in Topics :
        Inserts(t) =>
            /\ topic_doc_count' = Put(topic_doc_count, t, At(topic_doc_count, t) + Len(CurrentDoc))
            /\ WordsInserted(t)

\* C10 as stated: the insertion of a document into a topic, in _init and in
\* the reassign step, adds the length of the document to topic_doc_count and
\* to topic_word_count of the topic and the occurrence count of each of its
\* distinct words to topic_word_occurrence.
C10_AddsLengthToDocCount == [][C10_InsertAddsLength]_vars

C10_InsertAddsOne ==
    \A t \in Topics :
        Inserts(t) =>
            /\ topic_doc_count' = Put(topic_doc_count, t, At(topic_doc_count, t) + 1)
            /\ WordsInserted(t)

\* C10 amended: the insertion adds 1 to topic_doc_count of the topic, the
\* length of the document to its topic_word_count and the occurrence count
\* of each distinct word to its row of topic_word_occurrence; no other entry
\* changes.
C10_AddsOneToDocCount == [][C10_InsertAddsOne]_vars

\* the last document of a pass, three tokens with a repeated word, has just
\* been moved to another topic
C10_Witness ==
    /\ pc = "iterate"
    /\ iter >= 1
    /\ doc_index = n_documents - 1
    /\ HasRepeat(doc_index)
    /\ JustMoved
    /\ Len(CurrentDoc) = 3

\* the update just completed redrew the topic its document had
JustStayed ==
    /\ pc \in {"iterate", "unassign"}
    /\ old_topic # -1
    /\ old_topic = topic

\* C11: an update that redraws the document's topic leaves the three
\* statistics and the assignment vector as it found them; and once the
\* removal is complete, adding the document back token by token, as _init
\* adds it, gives the statistics the update found.
C11_RemoveInvertsInsert ==
    /\ JustStayed =>
          /\ topic_doc_count = before.doc_count
          /\ topic_word_count = before.word_count
          /\ topic_word_occurrence = before.word_occurrence
          /\ topic_assignments = before.assignments
    /\ pc = "score" =>
          /\ Add(topic_doc_count, old_topic, 1) = before.doc_count
          /\ Add(topic_word_count, old_topic, Len(CurrentDoc)) = before.word_count
          /\ Put(topic_word_occurrence, old_topic,
                 AddTokens(At(topic_word_occurrence, old_topic), CurrentDoc))
               = before.word_occurrence

\* in the first pass, a document with a repeated word, placed by _init, has
\* been removed and put back into the same topic, which holds other words too
C11_Witness ==
    /\ pc = "unassign"
    /\ iter = 1
    /\ doc_index >= 1
    /\ JustStayed
    /\ HasRepeat(doc_index - 1)
    /\ n_topics = 2
    /\ At(topic_word_count, topic) > Len(At(documents, doc_index - 1))

\* C12: after _init, after every completed update and at the end of every
\* inference() call of the process, the assignment vector has one entry per
\* document, len(topic_assignments) = n_documents = len(documents)
\* = len(doc_word_occurrence), and every entry is a topic id in [0, n_topics).
C12_OneEntryPerDocument ==
    Settled =>
        /\ Len(topic_assignments) = n_documents
        /\ n_documents = Len(documents)
        /\ Len(documents) = Len(doc_word_occurrence)
        /\ \A i \in DOMAIN topic_assignments : topic_assignments[i] \in Topics

\* a token of the document is no word id of the vocabulary file
OutOfRange(doc) == \E i \in DOMAIN doc : doc[i] \notin 0..(Len(vocab_file) - 1)

\* the statistics have been zeroed by _init
StatisticsInitialised == pc \notin {"start", "init"}

\* C13: a corpus document with a word id outside [0, V), a negative one
\* included, makes the run fail in analyse_corpus: it is never among the
\* documents when _init or single_iteration runs, and the statistics are
\* never initialised or updated with such a document loaded.
C13_BadIdFailsAtLoad ==
    /\ pc # "start" => \A d \in DOMAIN documents : ~OutOfRange(documents[d])
    /\ StatisticsInitialised =>
          \A d \in DOMAIN documents :
              OutOfRange(documents[d]) => inserted[d] = -1

\* the ids of the lines written for topic k
IdsWritten(k) == [i \in DOMAIN top_words[k + 1] |-> top_words[k + 1][i].id]

\* id a is listed before id b: the greater count, or the same count and the
\* smaller id
RanksBefore(row, a, b) ==
    \/ At(row, a) > At(row, b)
    \/ At(row, a) = At(row, b) /\ a < b

\* C14: for every topic, write_topic_top_words writes at most
\* n_words_each_topic lines, in order of non-increasing occurrence count with
\* equal counts in ascending id order, each with the count of its id, and no
\* id left out ranks before one written; counts {0:5, 1:2, 2:5} with
\* n_words_each_topic = 2 give ids 0 then 2.
C14_TopWordsOrder ==
    pc = "written" =>
        \A k \in Topics :
            LET row == At(topic_word_occurrence, k)
                ids == IdsWritten(k)
            IN  /\ Len(ids) <= n_words_each_topic
                /\ \A i, j \in DOMAIN ids : i < j => RanksBefore(row, ids[i], ids[j])
                /\ \A i \in DOMAIN ids :
                     /\ top_words[k + 1][i].count = At(row, ids[i])
                     /\ \A w \in Words :
                          (\A j \in DOMAIN ids : ids[j] # w) => RanksBefore(row, ids[i], w)
                /\ (row = <<5, 2, 5>> /\ n_words_each_topic = 2) => ids = <<0, 2>>

\* the table of the example has been written
C14_Witness ==
    /\ pc = "written"
    /\ At(topic_word_occurrence, 0) = <<5, 2, 5>>
    /\ n_words_each_topic = 2
    /\ IdsWritten(0) = <<0, 2>>

\* the current document is out of the statistics: removed, not yet reinserted
Removed == pc \in {"score", "sample", "assign"}

\* the statistics counted afresh from the current assignments of the
\* documents other than d
OthersDocs(k, d) ==
    Cardinality({i \in 0..(n_documents - 1) : i # d /\ At(topic_assignments, i) = k})

OthersWords(k, d) ==
    SumInts([i \in 1..n_documents |->
               IF i - 1 # d /\ topic_assignments[i] = k THEN Len(documents[i]) ELSE 0])

OthersOccurrence(k, w, d) ==
    SumInts([i \in 1..n_documents |->
               IF i - 1 # d /\ topic_assignments[i] = k
               THEN Occurrences(documents[i], w) ELSE 0])

\* C15: while document d is scored (removed, not yet reinserted) the three
\* statistics are those counted from the current assignments of all other
\* documents, those reassigned earlier in the pass included, with nothing of
\* d in any topic; the document counts then add up to n_documents - 1.
C15_ScoredAgainstOthers ==
    Removed =>
        /\ \A k \in Topics :
             /\ At(topic_doc_count, k) = OthersDocs(k, doc_index)
             /\ At(topic_word_count, k) = OthersWords(k, doc_index)
             /\ \A w \in Words :
                  At(At(topic_word_occurrence, k), w) = OthersOccurrence(k, w, doc_index)
        /\ SumInts(topic_doc_count) = n_documents - 1

\* the third document is scored after an earlier update of the same pass
\* changed a document's topic
C15_Witness ==
    /\ pc = "score"
    /\ moved_in_pass
    /\ doc_index = 2
    /\ n_topics = 2
    /\ Len(CurrentDoc) > 0
    /\ \E k \in Topics : At(topic_word_count, k) > 0

\* C16: whenever single_iteration is about to subtract a document from the
\* topic it reads at line 131, that topic is the one the document's
\* contribution was last added to (by _init or by its last reassign) and has
\* not been removed from since, in every inference() call of the process.
C16_RemovalMatchesInsertion ==
    pc = "unassign" => At(inserted, doc_index) = At(topic_assignments, doc_index)

UpdateSteps == <<"unassign", "score", "sample", "assign">>

\* the four steps of the update of documents 0..n-1, document by document
FullPass(n) ==
    [i \in 1..(4 * n) |-> <<UpdateSteps[((i - 1) % 4) + 1], (i - 1) \div 4>>]

C17_PassesInOrder ==
    /\ Len(pass_log) <= 4 * n_documents
    /\ pass_log = SubSeq(FullPass(n_documents), 1, Len(pass_log))
    /\ iter <= n_iterations
    /\ (pc = "iterate" /\ iter >= 1) => pass_log = FullPass(n_documents)
    /\ pc = "done" =>
          /\ iter = n_iterations
          /\ pass_log = FullPass(n_documents)

\* C17: with beta > 0 inference() comes to its end, and it ends after
\* exactly n_iterations passes; the steps of every pass are unassign, score,
\* sample, assign for document 0, then for document 1, and so on to the last
\* document, each document once and each update complete before the next.
C17_TerminatesAfterFullPasses ==
    /\ []C17_PassesInOrder
    /\ (beta # FInt(0)) => <>(pc = "done")

\* the end of a run of two passes over three documents
C17_Witness ==
    /\ pc = "done"
    /\ iter = 2
    /\ n_documents = 3
    /\ Len(pass_log) = 12
    /\ beta # FInt(0)

\* what analyse_corpus reads from the corpus file of the run
FileDocIds == [i \in DOMAIN corpus_file |-> corpus_file[i][1]]

FileDocuments == [i \in DOMAIN corpus_file |-> corpus_file[i][2]]

\* C18: in every inference() call of the process, once the corpus is read
\* the doc ids, documents and occurrence tables are exactly those of the
\* call's own corpus file, and once _init has returned the vocabulary is
\* that of its own vocabulary file and the assignment vector holds one
\* entry for each of its own documents: nothing of an earlier call remains.
C18_NothingCarriedOver ==
    /\ pc # "start" =>
          /\ doc_ids = FileDocIds
          /\ documents = FileDocuments
          /\ doc_word_occurrence = [i \in DOMAIN corpus_file |-> Counter(corpus_file[i][2])]
    /\ pc \in {"iterate", "unassign", "done"} =>
          /\ id2word_vocabulary = load_vocabulary(<<>>, vocab_file)
          /\ Len(topic_assignments) = Len(corpus_file)

\* some draw makes sample_new_topic return index t for these weights
Drawable(weights, t) == \E u \in Draws(weights) : sample_new_topic(weights, u) = t

NonZeroWords(k) == {w \in Words : At(At(topic_word_occurrence, k), w) # 0}

\* C20: the list written for a topic holds only words with a nonzero
\* occurrence count in the topic, and its length is the smaller of
\* n_words_each_topic and the number of such words; an empty topic gets an
\* empty list.
C20_OnlyNonZeroWords ==
    pc = "written" =>
        \A k \in Topics :
            /\ \A i \in DOMAIN top_words[k + 1] : top_words[k + 1][i].count # 0
            /\ Len(top_words[k + 1])
                 = (IF n_words_each_topic <= Cardinality(NonZeroWords(k))
                    THEN n_words_each_topic ELSE Cardinality(NonZeroWords(k)))

====
